---- MODULE Spec2Model ----
(***************************************************************************)
(* Model of main.py: a Flask service holding one process-wide RetrievalQA   *)
(* chain (qa_chain), built at import time by build_qa_chain() and replaced  *)
(* by POST /reload; POST /ask invokes the chain, GET /health is static.     *)
(*                                                                         *)
(* Text values (header values, the admin token, questions, chain results)   *)
(* are sequences of characters, so that str.strip() is computed, not        *)
(* assumed.  Request handlers run on concurrent threads; a handler's purely *)
(* local statements are grouped into one step, every access to the shared   *)
(* global qa_chain and every step of build_qa_chain is a step of its own.   *)
(***************************************************************************)
EXTENDS Integers, Sequences, FiniteSets, Bags, TLC

\* ---------------------------------------------------------------- bounds
\* longest text value drawn for a header, token, question or result
MaxLen == 2
\* number of build_qa_chain() calls in one run (the startup build included)
MaxBuilds == 3
\* number of times the knowledge document is edited on disk
MaxDoc == 1

\* ---------------------------------------------------------------- values
Char == {"a", " "}
\* the characters str.strip() removes (modelled by the space)
Whitespace == {" "}

Strs == UNION {[1..n -> Char] : n \in 0..MaxLen}

\* a header or JSON field that is not there (None in Python); like every text
\* value it is a tuple, and it is no member of Strs
Absent == <<"absent">>
\* a JSON value that is present and is not a string (null, number, list, ...)
NonString == <<"nonstring">>
\* qa_chain before line 39 has assigned it
Unset == 0

\* request-serving threads of the WSGI server; "main" runs the module body
Workers == {"w1", "w2"}
Threads == Workers \cup {"main"}

\* the chunks CharacterTextSplitter produces for version v of the document
ChunkIdx == {1, 2}
SplitDocuments(v) == {<<v, i>> : i \in ChunkIdx}

VARIABLES
  OPENAI_API_KEY,  \* whether the environment sets it (line 11)
  PERSIST_DIR,     \* whether CHROMA_DIR is set (line 18)
  ADMIN_TOKEN,     \* os.environ.get("ADMIN_TOKEN", ""), a text value
  proc,            \* "starting" | "serving" | "dead"
  document,        \* version of the knowledge file now on disk
  collection,      \* bag of chunks in the Chroma collection "langchain"
  chains,          \* build number -> [doc, built]: the chain objects
  qa_chain,        \* the global handle: Unset or a build number
  pc,              \* thread -> position
  req,             \* thread -> the request being handled
  loc,             \* thread -> locals [chain, docs, out]
  resp,            \* thread -> the response sent
  lastFinished,    \* the build whose build_qa_chain() returned last
  lastStored       \* the build whose assignment to qa_chain ran last

vars == <<OPENAI_API_KEY, PERSIST_DIR, ADMIN_TOKEN, proc, document, collection,
          chains, qa_chain, pc, req, loc, resp, lastFinished, lastStored>>

env == <<OPENAI_API_KEY, PERSIST_DIR, ADMIN_TOKEN>>

\* ---------------------------------------------------------------- str.strip
RECURSIVE LStrip(_)
LStrip(s) ==
  IF s # <<>> /\ Head(s) \in Whitespace THEN LStrip(Tail(s)) ELSE s

RECURSIVE RStrip(_)
RStrip(s) ==
  IF s # <<>> /\ s[Len(s)] \in Whitespace
  THEN RStrip(SubSeq(s, 1, Len(s) - 1))
  ELSE s

Strip(s) == RStrip(LStrip(s))

\* ---------------------------------------------------------------- /reload auth
\* the header compared as sent, without .strip()
ProvidedUntrimmed(header) == IF header = Absent THEN <<>> ELSE header

\* line 73: (request.headers.get("X-Admin-Token") or "").strip()
Provided(header) == Strip(IF header = Absent THEN <<>> ELSE header)

\* the comparison alone, without `not admin_token`
AuthorizedWithoutTokenCheck(admin, header) == Provided(header) = admin

\* line 74, negated: the request goes on to the rebuild
Authorized(admin, header) == admin # <<>> /\ Provided(header) = admin

\* ---------------------------------------------------------------- /ask parsing
\* A request body as request.get_json(silent=True) sees it:
\*   "none"   no parseable JSON (get_json returns None)
\*   "falsy"  a JSON value that is falsy and no object: null, false, 0, "", []
\*   "truthy" a JSON value that is truthy and no object: [1], 1, "x", true
\*   "object" a JSON object; question is its "question" member
Bodies ==
  [json : {"none", "falsy", "truthy"}, question : {Absent}]
    \cup [json : {"object"}, question : {Absent, NonString} \cup Strs]

NoBody == [json |-> "none", question |-> Absent]

\* what a step yields: nothing yet, a raised exception, or a value
NoOut == [tag |-> "none", val |-> <<>>]
Raise(msg) == [tag |-> "raise", val |-> <<msg>>]
Value(v) == [tag |-> "value", val |-> v]

\* lines 53-54: data = get_json(silent=True) or {};
\*              question = data.get("question", "").strip()
AskParse(body) ==
  IF body.json = "truthy"
  THEN Raise("AttributeError")          \* list/int/str/bool has no .get
  ELSE LET q == IF body.json = "object" THEN body.question ELSE Absent
       IN  IF q = NonString
           THEN Raise("AttributeError") \* the value has no .strip
           ELSE Value(Strip(IF q = Absent THEN <<>> ELSE q))

\* ---------------------------------------------------------------- responses
NoResp == [status |-> 0, key |-> "none", val |-> <<>>, by |-> "none"]

Json(status, key, val) ==
  [status |-> status, key |-> key, val |-> val, by |-> "handler"]

\* line 48
HealthResponse == Json(200, "status", <<"ok", "v1">>)
\* line 56
NoQuestionResponse == Json(400, "error", <<"No question provided">>)
\* line 75
UnauthorizedResponse == Json(401, "error", <<"Unauthorized">>)
\* line 78
ReloadedResponse == Json(200, "status", <<"reloaded">>)
\* line 67: f"[server] {e}"
ServerErrorResponse(e) == Json(500, "error", <<"[server] ">> \o e)
\* an exception that leaves a view function: Flask's own 500 page
UnhandledResponse ==
  [status |-> 500, key |-> "html", val |-> <<>>, by |-> "framework"]
\* no listening process: the client gets no HTTP response at all
NoConnection == [status |-> 0, key |-> "none", val |-> <<>>, by |-> "refused"]

Sentinel == <<"No answer found.">>

\* the result stripped, without `or "No answer found."`
AnswerWithoutFallback(result) ==
  Strip(IF result = Absent THEN <<>> ELSE result)

\* line 60: resp.get("result", "").strip() or "No answer found."
Answer(result) ==
  LET r == Strip(IF result = Absent THEN <<>> ELSE result)
  IN  IF r = <<>> THEN Sentinel ELSE r

\* no except clause: the exception leaves the view function
AskRaisesToFramework(e) == UnhandledResponse

\* lines 64-67: every Exception raised in the try block is answered here
AskExcept(e) == ServerErrorResponse(e)

\* ---------------------------------------------------------------- state
NoReq == [kind |-> "none", header |-> Absent, body |-> NoBody]
NoLoc == [chain |-> Unset, docs |-> -1, out |-> NoOut]

\* the state after the interpreter has started, for an environment that
\* draws ADMIN_TOKEN from tokens
InitOf(tokens) ==
  /\ OPENAI_API_KEY \in BOOLEAN
  /\ PERSIST_DIR \in BOOLEAN
  /\ ADMIN_TOKEN \in tokens
  /\ proc = "starting"
  /\ document = 0
  /\ collection = EmptyBag
  /\ chains = <<>>
  /\ qa_chain = Unset
  /\ pc = [t \in Threads |-> IF t = "main" THEN "check_key" ELSE "idle"]
  /\ req = [t \in Threads |-> NoReq]
  /\ loc = [t \in Threads |-> NoLoc]
  /\ resp = [t \in Threads |-> NoResp]
  /\ lastFinished = Unset
  /\ lastStored = Unset

\* the knowledge file is edited on disk between builds
EditDocument ==
  /\ document < MaxDoc
  /\ document' = document + 1
  /\ UNCHANGED <<env, proc, collection, chains, qa_chain, pc, req, loc, resp,
                 lastFinished, lastStored>>

\* ---------------------------------------------------------------- startup
\* lines 11-13: without the API key the module body raises RuntimeError
check_api_key ==
  /\ pc["main"] = "check_key"
  /\ IF OPENAI_API_KEY
     THEN /\ pc' = [pc EXCEPT !["main"] = "build_load"]
          /\ proc' = proc
     ELSE /\ pc' = [pc EXCEPT !["main"] = "exited"]
          /\ proc' = "dead"
  /\ UNCHANGED <<env, document, collection, chains, qa_chain, req, loc, resp,
                 lastFinished, lastStored>>

\* ---------------------------------------------------------------- build_qa_chain
BuildPcs == {"build_load", "build_index", "build_persist", "build_chain"}

\* the handle pointed at the new chain while it is still being built
HandleTakenAtBuildStart(old, new) == new

\* build_qa_chain declares no global: its steps leave qa_chain as it is
HandleDuringBuild(old, new) == old

\* the handle cleared when the build fails
HandleClearedOnBuildError(old) == Unset

\* an exception leaving build_qa_chain reaches line 39/77 before the
\* assignment has run: the global keeps its value
HandleOnBuildError(old) == old

\* lines 21-25: read the file as it is now and split it; the call gets the
\* next build number
build_qa_chain_load(t) ==
  /\ pc[t] = "build_load"
  /\ LET id == Len(chains) + 1
     IN  /\ chains' = Append(chains, [doc |-> document, built |-> FALSE])
         /\ loc' = [loc EXCEPT ![t] = [@ EXCEPT !.chain = id, !.docs = document]]
         /\ qa_chain' = HandleDuringBuild(qa_chain, id)
  /\ pc' = [pc EXCEPT ![t] = "build_index"]
  /\ UNCHANGED <<env, proc, document, collection, req, resp,
                 lastFinished, lastStored>>

\* What Chroma.from_documents (lines 30 and 33) leaves in the collection.
\* It names no collection, so it opens the default one, "langchain", with
\* get_or_create and adds the documents under newly drawn ids; nothing is
\* deleted first.  With PERSIST_DIR the collection is the one stored in that
\* directory; without it, it is the one of chromadb's in-memory system,
\* which all clients of a process share.  Either way every build of the
\* process adds to the same collection.
FromDocuments(coll, docs) == coll (+) SetToBag(docs)

\* lines 27-33: embed the chunks and add them to the collection
build_qa_chain_index(t) ==
  /\ pc[t] = "build_index"
  /\ collection' = FromDocuments(collection, SplitDocuments(loc[t].docs))
  /\ qa_chain' = HandleDuringBuild(qa_chain, loc[t].chain)
  /\ pc' = [pc EXCEPT ![t] = IF PERSIST_DIR THEN "build_persist"
                                            ELSE "build_chain"]
  /\ UNCHANGED <<env, proc, document, chains, req, loc, resp,
                 lastFinished, lastStored>>

\* line 31: db.persist(); whether the installed Chroma class still has the
\* method decides between this step and build_qa_chain_raises
build_qa_chain_persist(t) ==
  /\ pc[t] = "build_persist"
  /\ qa_chain' = HandleDuringBuild(qa_chain, loc[t].chain)
  /\ pc' = [pc EXCEPT ![t] = "build_chain"]
  /\ UNCHANGED <<env, proc, document, collection, chains, req, loc, resp,
                 lastFinished, lastStored>>

\* lines 35-37: retriever, llm and RetrievalQA.from_chain_type; the call
\* returns the finished chain to its caller
build_qa_chain_construct(t) ==
  /\ pc[t] = "build_chain"
  /\ chains' = [chains EXCEPT ![loc[t].chain].built = TRUE]
  /\ qa_chain' = HandleDuringBuild(qa_chain, loc[t].chain)
  /\ lastFinished' = loc[t].chain
  /\ pc' = [pc EXCEPT ![t] = "store"]
  /\ UNCHANGED <<env, proc, document, collection, req, loc, resp, lastStored>>

\* any step of the build raises (file missing or undecodable, splitter,
\* embedding service, Chroma, persist, chain construction).  At import time
\* the exception ends the process; in /reload it leaves the view function.
build_qa_chain_raises(t) ==
  /\ pc[t] \in BuildPcs
  /\ qa_chain' = HandleOnBuildError(qa_chain)
  /\ IF t = "main"
     THEN /\ proc' = "dead"
          /\ pc' = [pc EXCEPT ![t] = "exited"]
          /\ resp' = resp
     ELSE /\ proc' = proc
          /\ pc' = [pc EXCEPT ![t] = "done"]
          /\ resp' = [resp EXCEPT ![t] = UnhandledResponse]
  /\ UNCHANGED <<env, document, collection, chains, req, loc,
                 lastFinished, lastStored>>

\* the assignment made only when the new chain is of a later build
StoredValueIfNewer(old, new) == IF new > old THEN new ELSE old

\* line 39 / line 77: qa_chain = <the chain build_qa_chain() returned>
StoredValue(old, new) == new

\* the collection a chain's retriever queries (line 35): the one collection
\* "langchain" of the process, whichever build made the chain
IndexOf(c) == collection

\* line 39 / line 77: the assignment to the global; line 78 for a request
assign_qa_chain(t) ==
  /\ pc[t] = "store"
  /\ qa_chain' = StoredValue(qa_chain, loc[t].chain)
  /\ lastStored' = loc[t].chain
  /\ IF t = "main"
     THEN /\ proc' = "serving"     \* lines 42-83: the app is created and run
          /\ pc' = [pc EXCEPT ![t] = "running"]
          /\ resp' = resp
     ELSE /\ proc' = proc
          /\ pc' = [pc EXCEPT ![t] = "done"]
          /\ resp' = [resp EXCEPT ![t] = ReloadedResponse]
  /\ UNCHANGED <<env, document, collection, chains, req, loc, lastFinished>>

\* ---------------------------------------------------------------- requests
\* a liveness probe (GET /health) arrives after the module body has raised:
\* the process has exited, nothing listens, the probe gets no response
health_refused(w) ==
  /\ proc = "dead"
  /\ pc[w] = "idle"
  /\ req' = [req EXCEPT ![w] = [NoReq EXCEPT !.kind = "health"]]
  /\ resp' = [resp EXCEPT ![w] = NoConnection]
  /\ pc' = [pc EXCEPT ![w] = "done"]
  /\ UNCHANGED <<env, proc, document, collection, chains, qa_chain, loc,
                 lastFinished, lastStored>>

\* lines 46-48
health(w) ==
  /\ proc = "serving"
  /\ pc[w] = "idle"
  /\ req' = [req EXCEPT ![w] = [NoReq EXCEPT !.kind = "health"]]
  /\ resp' = [resp EXCEPT ![w] = HealthResponse]
  /\ pc' = [pc EXCEPT ![w] = "done"]
  /\ UNCHANGED <<env, proc, document, collection, chains, qa_chain, loc,
                 lastFinished, lastStored>>

\* lines 52-59, up to the read of the global qa_chain
ask_parse(w, body) ==
  /\ proc = "serving"
  /\ pc[w] = "idle"
  /\ req' = [req EXCEPT ![w] = [NoReq EXCEPT !.kind = "ask", !.body = body]]
  /\ LET parsed == AskParse(body)
     IN  IF parsed.tag = "raise"
         THEN /\ loc' = [loc EXCEPT ![w] = [NoLoc EXCEPT !.out = parsed]]
              /\ resp' = [resp EXCEPT ![w] = AskExcept(parsed.val)]
              /\ pc' = [pc EXCEPT ![w] = "done"]
         ELSE IF parsed.val = <<>>
         THEN /\ loc' = loc
              /\ resp' = [resp EXCEPT ![w] = NoQuestionResponse]
              /\ pc' = [pc EXCEPT ![w] = "done"]
         ELSE /\ loc' = [loc EXCEPT ![w] = [NoLoc EXCEPT !.chain = qa_chain]]
              /\ resp' = resp
              /\ pc' = [pc EXCEPT ![w] = "ask_invoke"]
  /\ UNCHANGED <<env, proc, document, collection, chains, qa_chain,
                 lastFinished, lastStored>>

\* what qa_chain.invoke yields: an exception, or a dict whose "result" is a
\* string from results or is missing
ChainOutcomes(results) ==
  {Raise("ChainError")} \cup {Value(r) : r \in results \cup {Absent}}

\* lines 59-67: the call of the chain read at line 59 and the response
ask_invoke(w, out) ==
  /\ pc[w] = "ask_invoke"
  /\ loc' = [loc EXCEPT ![w].out = out]
  /\ resp' = [resp EXCEPT ![w] =
                IF out.tag = "raise"
                THEN AskExcept(out.val)
                ELSE Json(200, "answer", Answer(out.val))]
  /\ pc' = [pc EXCEPT ![w] = "done"]
  /\ UNCHANGED <<env, proc, document, collection, chains, qa_chain, req,
                 lastFinished, lastStored>>

Headers == Strs \cup {Absent}

\* lines 71-75: the token check; an authorized request goes on to line 77
reload_knowledge(w, header) ==
  /\ proc = "serving"
  /\ pc[w] = "idle"
  /\ req' = [req EXCEPT ![w] = [NoReq EXCEPT !.kind = "reload",
                                            !.header = header]]
  /\ IF Authorized(ADMIN_TOKEN, header)
     THEN /\ Len(chains) < MaxBuilds
          /\ pc' = [pc EXCEPT ![w] = "build_load"]
          /\ resp' = resp
     ELSE /\ pc' = [pc EXCEPT ![w] = "done"]
          /\ resp' = [resp EXCEPT ![w] = UnauthorizedResponse]
  /\ UNCHANGED <<env, proc, document, collection, chains, qa_chain, loc,
                 lastFinished, lastStored>>

\* the response has been sent; the thread takes the next request
Finish(w) ==
  /\ pc[w] = "done"
  /\ pc' = [pc EXCEPT ![w] = "idle"]
  /\ req' = [req EXCEPT ![w] = NoReq]
  /\ loc' = [loc EXCEPT ![w] = NoLoc]
  /\ resp' = [resp EXCEPT ![w] = NoResp]
  /\ UNCHANGED <<env, proc, document, collection, chains, qa_chain,
                 lastFinished, lastStored>>

\* the steps of the process with request threads W, request bodies B,
\* X-Admin-Token headers H and chain results R
NextOf(W, B, H, R) ==
  \/ EditDocument
  \/ check_api_key
  \/ \E t \in W \cup {"main"} : build_qa_chain_load(t)
  \/ \E t \in W \cup {"main"} : build_qa_chain_index(t)
  \/ \E t \in W \cup {"main"} : build_qa_chain_persist(t)
  \/ \E t \in W \cup {"main"} : build_qa_chain_construct(t)
  \/ \E t \in W \cup {"main"} : build_qa_chain_raises(t)
  \/ \E t \in W \cup {"main"} : assign_qa_chain(t)
  \/ \E w \in W : health_refused(w)
  \/ \E w \in W : health(w)
  \/ \E w \in W, body \in B : ask_parse(w, body)
  \/ \E w \in W, out \in ChainOutcomes(R) : ask_invoke(w, out)
  \/ \E w \in W, header \in H : reload_knowledge(w, header)
  \/ \E w \in W : Finish(w)

\* Concurrent request threads, with one input of each kind the handlers
\* tell apart: a question that is blank and one that is not, a header that
\* is missing and one that matches, a result that is missing and one that
\* is text.
SomeBodies ==
  [json : {"object"}, question : {<<>>, <<"a">>}]
SomeHeaders == {Absent, <<"a">>}
SomeResults == {<<"a">>}
SomeTokens == {<<>>, <<"a">>}

Init == InitOf(SomeTokens)
Next == NextOf(Workers, SomeBodies, SomeHeaders, SomeResults)
Spec == Init /\ [][Next]_vars

\* One request at a time, with every body, header, token and result up to
\* MaxLen characters.
InitInputs == InitOf(Strs)
NextInputs == NextOf({"w1"}, Bodies, Headers, Strs)
SpecInputs == InitInputs /\ [][NextInputs]_vars

\* ================================================================ claims
Built(c) == c \in DOMAIN chains /\ chains[c].built
Building(t) == pc[t] \in BuildPcs \cup {"store"}
Done(w, kind) == pc[w] = "done" /\ req[w].kind = kind

\* C1: a /reload whose rebuild raises leaves qa_chain as it was, the global
\* is written only by the assignment that follows a build_qa_chain() call
\* that returned, and an /ask that starts reads whatever the global holds
\* at that moment, so after a failed rebuild it is the previous chain.
C1_FailedReloadKeepsChain ==
  [][ /\ \A w \in Workers :
           (req[w].kind = "reload" /\ pc[w] \in BuildPcs
              /\ resp'[w] = UnhandledResponse)
           => (qa_chain' = qa_chain /\ Built(qa_chain'))
      /\ qa_chain' # qa_chain
           => \E t \in Threads :
                /\ pc[t] = "store"
                /\ Built(loc[t].chain)
                /\ qa_chain' = loc[t].chain
      /\ \A w \in Workers :
           (pc[w] = "idle" /\ pc'[w] = "ask_invoke")
           => loc'[w].chain = qa_chain
    ]_vars

\* C1 witness: a rebuild (build 2) has failed, the handle is still the
\* startup chain, and an /ask has been answered by that chain.
C1_Witness ==
  \E w, v \in Workers :
    /\ Done(w, "reload") /\ resp[w] = UnhandledResponse /\ loc[w].chain = 2
    /\ qa_chain = 1
    /\ Done(v, "ask") /\ resp[v].status = 200 /\ loc[v].chain = 1

\* C2: every /ask that invokes the chain holds a chain whose build has
\* returned (the one the global held when line 59 read it), and while the
\* process serves the global is never unset nor a chain still being built.
C2_AskUsesBuiltChain ==
  /\ \A w \in Workers :
       (pc[w] = "ask_invoke" \/ (Done(w, "ask") /\ loc[w].out.tag = "value"))
       => (loc[w].chain # Unset /\ Built(loc[w].chain))
  /\ proc = "serving" => (qa_chain # Unset /\ Built(qa_chain))

\* C2 witness: an /ask that read the startup chain is still in flight after
\* a /reload has replaced the handle, while another rebuild is under way.
C2_Witness ==
  \E w, v \in Workers :
    /\ pc[w] = "ask_invoke" /\ loc[w].chain = 1
    /\ qa_chain = 2
    /\ pc[v] \in BuildPcs /\ ~Built(loc[v].chain)

\* C3: with no admin token configured every /reload is answered 401
\* Unauthorized whatever the header, no rebuild is started, and the handle
\* stays the startup chain.
C3_NoTokenAlwaysUnauthorized ==
  ADMIN_TOKEN = <<>> =>
    /\ \A w \in Workers :
         req[w].kind = "reload" =>
           /\ pc[w] = "done"
           /\ resp[w] = UnauthorizedResponse
           /\ loc[w] = NoLoc
    /\ Len(chains) <= 1
    /\ proc = "serving" => qa_chain = 1

\* C3 witness: no token configured, a /reload with a whitespace-only header
\* (which strips to the empty string) was refused.
C3_Witness ==
  /\ ADMIN_TOKEN = <<>>
  /\ \E w \in Workers :
       /\ Done(w, "reload") /\ req[w].header = <<" ">>
       /\ resp[w] = UnauthorizedResponse
       /\ qa_chain = 1

\* the header value, trimmed, equals the configured secret
HeaderMatches(w) ==
  req[w].header # Absent /\ Strip(req[w].header) = ADMIN_TOKEN

\* C4 as claimed: with a token configured, a /reload whose trimmed header
\* differs from the secret is answered 401, and one whose header matches is
\* answered 200 {"status":"reloaded"}.
C4_MatchAlwaysReloaded ==
  ADMIN_TOKEN # <<>> =>
    \A w \in Workers :
      Done(w, "reload") =>
        IF HeaderMatches(w)
        THEN resp[w] = ReloadedResponse
        ELSE resp[w] = UnauthorizedResponse

\* C4 amended: with a token configured, a /reload whose trimmed header
\* differs from the secret (compared as configured, untrimmed) is answered
\* 401 without starting a build and without touching the handle; one whose
\* header matches runs the rebuild and is answered 200 {"status":"reloaded"}
\* by the step that assigns its finished chain to the handle, unless the
\* rebuild raises: then the exception leaves the handler (the framework's
\* 500) and the handle is untouched.
C4_MatchReloadsUnlessBuildFails ==
  [][ ADMIN_TOKEN # <<>> =>
        \A w \in Workers :
          (pc[w] # "done" /\ pc'[w] = "done" /\ req'[w].kind = "reload") =>
            IF req'[w].header # Absent /\ Strip(req'[w].header) = ADMIN_TOKEN
            THEN \/ /\ resp'[w] = ReloadedResponse
                    /\ Built(loc[w].chain)
                    /\ qa_chain' = loc[w].chain
                 \/ /\ resp'[w] = UnhandledResponse
                    /\ pc[w] \in BuildPcs
                    /\ qa_chain' = qa_chain
            ELSE /\ resp'[w] = UnauthorizedResponse
                 /\ loc'[w] = NoLoc
                 /\ chains' = chains
                 /\ qa_chain' = qa_chain
    ]_vars

\* C4 witness: the secret is "a", the header " a" matches after trimming,
\* and the request was answered 200 with the handle now its own chain.
C4_Witness ==
  /\ ADMIN_TOKEN = <<"a">>
  /\ \E w \in Workers :
       /\ Done(w, "reload") /\ req[w].header = <<" ", "a">>
       /\ resp[w] = ReloadedResponse
       /\ qa_chain = loc[w].chain /\ qa_chain = 2

\* the body carries no question: no JSON, a JSON value that is no object,
\* an object without the member, or a member that is empty or whitespace
NoQuestion(body) ==
  \/ body.json # "object"
  \/ body.question = Absent
  \/ body.question \in Strs /\ Strip(body.question) = <<>>

\* C5 as claimed: every /ask whose body carries no question (no field, an
\* empty or whitespace-only value, no parseable JSON) is answered 400 with
\* an error field and the chain is never read nor invoked.
C5_NoQuestionIs400 ==
  \A w \in Workers :
    (Done(w, "ask") /\ NoQuestion(req[w].body)) =>
      /\ resp[w].status = 400
      /\ resp[w].key = "error"
      /\ loc[w].chain = Unset

\* C6: for a question that is non-empty after trimming, when the chain call
\* returns, the response is 200 with an answer that is never empty: the
\* result trimmed, or the sentinel when the result is missing, empty or
\* whitespace-only.
C6_AnswerNeverEmpty ==
  \A w \in Workers :
    ( /\ Done(w, "ask")
      /\ req[w].body.json = "object"
      /\ req[w].body.question \in Strs
      /\ Strip(req[w].body.question) # <<>>
      /\ loc[w].out.tag = "value" ) =>
        /\ resp[w].status = 200
        /\ resp[w].key = "answer"
        /\ resp[w].val # <<>>
        /\ resp[w].val =
             IF loc[w].out.val = Absent \/ Strip(loc[w].out.val) = <<>>
             THEN Sentinel
             ELSE Strip(loc[w].out.val)

\* C6 witness: the chain returned two spaces and the answer is the sentinel.
C6_Witness ==
  \E w \in Workers :
    /\ Done(w, "ask") /\ req[w].body.question = <<" ", "a">>
    /\ loc[w].out = Value(<<" ", " ">>)
    /\ resp[w] = Json(200, "answer", Sentinel)

\* C7: an exception raised while /ask is handled (in parsing, extraction or
\* the chain call) is answered by the handler itself with 500 and an error
\* field carrying the exception's message; no /ask response comes from the
\* framework, the step leaves the handle and the process as they were, and
\* the process goes on serving.
C7_AskCatchesEverything ==
  [][ \A w \in Workers :
        (pc[w] # "done" /\ pc'[w] = "done" /\ req'[w].kind = "ask") =>
          /\ resp'[w].by = "handler"
          /\ loc'[w].out.tag = "raise" =>
               /\ resp'[w].status = 500
               /\ resp'[w].key = "error"
               /\ resp'[w].val = <<"[server] ">> \o loc'[w].out.val
          /\ qa_chain' = qa_chain
          /\ proc' = "serving"
    ]_vars

\* C7 witness: the chain call raised and the caller got the handler's 500.
C7_Witness ==
  \E w \in Workers :
    /\ Done(w, "ask") /\ loc[w].out = Raise("ChainError")
    /\ loc[w].chain = qa_chain /\ Built(qa_chain)
    /\ resp[w] = Json(500, "error", <<"[server] ", "ChainError">>)
    /\ proc = "serving"

\* C8 as claimed: with the API key configured, every GET /health is
\* answered 200 {"status":"ok","version":"v1"}, whatever became of the
\* chain build.
C8_HealthAlways200 ==
  OPENAI_API_KEY =>
    \A w \in Workers : Done(w, "health") => resp[w] = HealthResponse

\* C9 as claimed: once every build that was started has returned, the index
\* behind the active chain holds exactly the chunks of the document that
\* chain's build read, each once.
C9_IndexIsExactlyItsBuild ==
  ( /\ qa_chain # Unset
    /\ \A t \in Threads : ~Building(t)
    /\ \A c \in DOMAIN chains : chains[c].built ) =>
      IndexOf(qa_chain) = SetToBag(SplitDocuments(chains[qa_chain].doc))

\* every request thread is through with its rebuild and the startup is over
AllReloadsFinished ==
  proc = "serving" /\ \A w \in Workers : ~Building(w)

\* C10 as claimed: once all overlapping reloads have finished, the handle is
\* the chain of the build that returned last.
C10_LastFinishedWins ==
  AllReloadsFinished => qa_chain = lastFinished

\* C10 amended: each build_qa_chain() call makes a chain of its own, the
\* handle only ever holds a chain whose build has returned, and it always
\* equals the chain of the assignment that ran last; that is normally, but
\* not necessarily, the build that returned last.
C10_LastAssignmentWins ==
  /\ qa_chain = lastStored
  /\ qa_chain # Unset => Built(qa_chain)
  /\ \A t, u \in Threads :
       (t # u /\ Building(t) /\ Building(u) /\ loc[t].chain # Unset)
       => loc[t].chain # loc[u].chain

\* C10 witness: two overlapping reloads were both answered 200; the handle
\* is build 2, although build 3 started later, read a newer document and
\* returned later.
C10_Witness ==
  /\ \A w \in Workers : Done(w, "reload") /\ resp[w] = ReloadedResponse
  /\ qa_chain = 2 /\ lastStored = 2 /\ lastFinished = 3
  /\ chains[2].doc < chains[3].doc

====
